---- MODULE Spec2Model ----
(***************************************************************************)
(* ZEP time tracker: the work-item field bridge (WorkItemService), the     *)
(* credential store (CredentialService), the time-service client           *)
(* (ZepApiService), the aggregation engine (ZepIntegrationService) and the  *)
(* CORS relay (proxy-server/server.js).                                    *)
(*                                                                         *)
(* Strings that the code takes apart (the ticket-id field) are sequences   *)
(* of one-character strings; durations and hour totals are integers in     *)
(* thousandths of an hour (2750 is 2.75 h), restricted to multiples of     *)
(* 0.125 h so that the sums the code computes in floating point are exact. *)
(***************************************************************************)
EXTENDS Integers, Sequences, FiniteSets, TLC

VARIABLES
    zepField,       \* the work item's Custom.ZEPNummer field, as getFieldValue answers
    upstream,       \* the time service: ticket id -> what a request for it meets
    stored,         \* localStorage['zep-api-credentials'] (parsed), or NoItem
    zepApi,         \* the ZepApiService instance's fields
    op,             \* the operation running, or the last one that ran
    pc,             \* where that operation is
    ticketIds,      \* the operation's ticket id list
    creds,          \* credentialsResult.data as read by executeZepIntegration
    idx,            \* the loop index i of executeZepIntegration (1-based)
    allTimeEntries, \* the entries collected so far
    fetchLog,       \* per getTimeEntriesForTicket call of the run: ticket, error, entries, requests
    reqs,           \* the HTTP requests issued by the run, in order
    writes,         \* the setFieldValue calls of the run, in order
    statusLog,      \* the steps passed to the status callback during the run
    result,         \* the ApiCallResult the operation returned
    saved,          \* the arguments of the last saveCredentials call (history)
    relayEnv,       \* the relay's process.env: ZEP_BASE_URL and ZEP_API_KEY
    relayPc,        \* where the relay's /api/zep/* handler is
    relayReq,       \* the request the relay is handling
    relayFetch,     \* the upstream request the handler issued
    relayUp,        \* what that upstream request met
    relayRes        \* the response the handler sent

relayVars == <<relayEnv, relayPc, relayReq, relayFetch, relayUp, relayRes>>

vars == <<zepField, upstream, stored, zepApi, op, pc, ticketIds, creds, idx,
          allTimeEntries, fetchLog, reqs, writes, statusLog, result, saved,
          relayVars>>

----------------------------------------------------------------------------
(* Bounds of the model *)

\* longest ticket id list passed to getTimeEntriesForWorkItem
MaxTickets == 2
\* longest field value the ticket-id parser is run on (besides the documented example)
MaxFieldLen == 4

----------------------------------------------------------------------------
(* Sequence helpers *)

RECURSIVE Flatten(_)
Flatten(ss) == IF ss = <<>> THEN <<>> ELSE Head(ss) \o Flatten(Tail(ss))

RECURSIVE SumSeq(_)
SumSeq(s) == IF s = <<>> THEN 0 ELSE Head(s) + SumSeq(Tail(s))

SeqsUpTo(S, n) == UNION {[1..k -> S] : k \in 0..n}

\* the elements of s without repetitions, in the order of their first occurrence
FirstOccurrences(s) ==
    LET first == {k \in 1..Len(s) : \A j \in 1..(k - 1) : s[j] # s[k]}
        pos[n \in 0..Len(s)] ==
            IF n = 0 THEN <<>>
            ELSE IF n \in first THEN Append(pos[n - 1], s[n]) ELSE pos[n - 1]
    IN pos[Len(s)]

----------------------------------------------------------------------------
(* JavaScript values *)

Undefined == "undefined"

\* !x for the string-or-undefined values the code tests
Truthy(s) == s # "" /\ s # Undefined

\* Numbers: a duration is a count of thousandths of an hour; the two values of
\* JavaScript arithmetic that are not such counts are written as negative integers:
\* the value of a property the object does not have, and NaN
AbsentNumber == -1
NaN == -2
IsNumber(v) == v >= 0
\* a + b, for a number, undefined or NaN on either side
JsPlus(a, b) == IF IsNumber(a) /\ IsNumber(b) THEN a + b ELSE NaN
\* s.reduce((sum, v) => sum + v, 0)
RECURSIVE JsSumFrom(_, _)
JsSumFrom(sum, s) == IF s = <<>> THEN sum ELSE JsSumFrom(JsPlus(sum, Head(s)), Tail(s))
JsSum(s) == JsSumFrom(0, s)

\* s.replace(/\/$/, '') on the URLs of the model
StripSlash(s) ==
    CASE s = "https://zep/" -> "https://zep"
      [] s = "https://proxy/api/zep/" -> "https://proxy/api/zep"
      [] OTHER -> s

\* String.prototype.trim on a sequence of characters
Whitespace == {" ", "\t"}

RECURSIVE TrimLeft(_)
TrimLeft(s) ==
    IF s # <<>> /\ Head(s) \in Whitespace THEN TrimLeft(Tail(s)) ELSE s

RECURSIVE TrimRight(_)
TrimRight(s) ==
    IF s # <<>> /\ s[Len(s)] \in Whitespace
    THEN TrimRight(SubSeq(s, 1, Len(s) - 1)) ELSE s

Trim(s) == TrimRight(TrimLeft(s))

\* String.prototype.split(','): the segments between commas, empty ones kept
RECURSIVE SplitComma(_, _)
SplitComma(s, cur) ==
    IF s = <<>> THEN <<cur>>
    ELSE IF Head(s) = "," THEN <<cur>> \o SplitComma(Tail(s), <<>>)
    ELSE SplitComma(Tail(s), Append(cur, Head(s)))

RECURSIVE MapTrim(_)
MapTrim(segs) ==
    IF segs = <<>> THEN <<>> ELSE <<Trim(Head(segs))>> \o MapTrim(Tail(segs))

RECURSIVE FilterNonEmpty(_)
FilterNonEmpty(segs) ==
    IF segs = <<>> THEN <<>>
    ELSE (IF Len(Head(segs)) > 0 THEN <<Head(segs)>> ELSE <<>>)
         \o FilterNonEmpty(Tail(segs))

----------------------------------------------------------------------------
(* Results and errors *)

\* body is the response body an error's message quotes, "" when it quotes none
NoError == [type |-> "none", statusCode |-> 0, body |-> ""]
ZepCorsError == [type |-> "ZepCorsError", statusCode |-> 0, body |-> ""]
\* statusCode 0 stands for a ZepApiConnectionError built without a status code
ZepApiConnectionError(status) ==
    [type |-> "ZepApiConnectionError", statusCode |-> status, body |-> ""]
\* new ZepApiConnectionError(`ZEP API error (${status}): ${errorText}`, status)
ZepApiErrorWithBody(status, errorText) ==
    [type |-> "ZepApiConnectionError", statusCode |-> status, body |-> errorText]
FieldException == [type |-> "Error", statusCode |-> 0, body |-> ""]

\* ApiCallResult<T>; data is tagged with what T is
NoPayload == [kind |-> "none"]
NoResult == [success |-> FALSE, error |-> "pending", details |-> NoError, data |-> NoPayload]
Failure(error, details) ==
    [success |-> FALSE, error |-> error, details |-> details, data |-> NoPayload]
Success(data) ==
    [success |-> TRUE, error |-> "", details |-> NoError, data |-> data]

----------------------------------------------------------------------------
(* WorkItemService *)

AbsentField == [kind |-> "absent", text |-> <<>>]
ThrowingField == [kind |-> "throws", text |-> <<>>]
TextField(chars) == [kind |-> "text", text |-> chars]

\* the parse with repeated ids removed
ParseDistinct(chars) == FirstOccurrences(FilterNonEmpty(MapTrim(SplitComma(chars, <<>>))))
\* String(value).split(',').map(id => id.trim()).filter(id => id.length > 0)
ParseNoTrim(chars) == FilterNonEmpty(SplitComma(chars, <<>>))
ParseTicketIds(chars) == FilterNonEmpty(MapTrim(SplitComma(chars, <<>>)))

\* getZepTicketIds, given what getFieldValue('Custom.ZEPNummer') does
GetZepTicketIds(field) ==
    IF field.kind = "throws"
    THEN Failure("Failed to read ZEP tickets", FieldException)
    ELSE IF field.kind = "absent" \/ field.text = <<>>
    THEN Failure("No ZEP ticket IDs found in Custom.ZEPNummer field", NoError)
    ELSE LET ids == ParseTicketIds(field.text) IN
         IF Len(ids) = 0
         THEN Failure("Custom.ZEPNummer field is empty or contains no valid ticket IDs", NoError)
         ELSE Success([kind |-> "ids", ids |-> ids])

\* updateDurationField, given whether setFieldValue('CUSTOM.IST', totalHours) resolves
UpdateIgnoresFailure(resolves) == Success([kind |-> "void"])
UpdateDurationField(resolves) ==
    IF resolves THEN Success([kind |-> "void"])
    ELSE Failure("Cannot update CUSTOM.IST field", FieldException)

----------------------------------------------------------------------------
(* CredentialService *)

NoItem == [present |-> FALSE, apiKey |-> "", baseUrl |-> ""]

\* btoa(encodeURIComponent(text)); the empty string encodes to itself
Encrypt(text) ==
    CASE text = "" -> ""
      [] text = "key-1" -> "a2V5LTE="
      [] OTHER -> text

\* decodeURIComponent(atob(text)); text that does not decode is returned as it is
Decrypt(text) ==
    CASE text = "a2V5LTE=" -> "key-1"
      [] OTHER -> text

\* saveCredentialsToLocalStorage: the item written under STORAGE_KEY
SaveCredentialsToLocalStorage(apiKey, baseUrl, useProxy, proxyUrl) ==
    [present |-> TRUE, apiKey |-> Encrypt(apiKey), baseUrl |-> baseUrl]

\* getCredentialsFromLocalStorage: the object returned for the stored item
GetCredentialsFromLocalStorage(item) ==
    IF item.present
    THEN [apiKey |-> IF Truthy(item.apiKey) THEN Decrypt(item.apiKey) ELSE Undefined,
          baseUrl |-> IF Truthy(item.baseUrl) THEN item.baseUrl ELSE Undefined,
          useProxy |-> Undefined, proxyUrl |-> Undefined]
    ELSE [apiKey |-> Undefined, baseUrl |-> Undefined,
          useProxy |-> Undefined, proxyUrl |-> Undefined]

\* no saveCredentials call since construction or since the last clearCredentials
NothingSaved ==
    [present |-> FALSE, apiKey |-> "", baseUrl |-> "", useProxy |-> FALSE, proxyUrl |-> ""]

\* !apiKey || !baseUrl on the credentials read from the store
CredentialsIncomplete(c) == ~Truthy(c.apiKey) \/ ~Truthy(c.baseUrl)

----------------------------------------------------------------------------
(* The time service, as the client meets it *)

\* fetch rejects with a TypeError when no HTTP response arrives; the message of
\* that TypeError is the browser's: Chromium's, Firefox's and Safari's
FailedToFetch == "Failed to fetch"
TransportMessages ==
    {FailedToFetch, "NetworkError when attempting to fetch resource.", "Load failed"}
TransportAs(message) ==
    [kind |-> "transport", status |-> 0, pages |-> <<>>, text |-> message]
Transport == TransportAs(FailedToFetch)
\* an answer with a non-2xx status and the given body text
HttpWith(status, body) == [kind |-> "http", status |-> status, pages |-> <<>>, text |-> body]
Http(status) == HttpWith(status, "")
Ok(pages) == [kind |-> "ok", status |-> 200, pages |-> pages, text |-> ""]

\* a page of attendance items with consecutive ids and the given durations
MkPage(firstId, durs) ==
    [k \in 1..Len(durs) |-> [id |-> firstId + k - 1, duration |-> durs[k]]]

\* one page without items
DsNone == << <<>> >>
\* README's success example: 5 entries, 12.50 hours, and 3 entries, 8.25 hours
Ds8136 == << MkPage(1, <<2500, 2500, 2500, 2500, 2500>>) >>
Ds8403 == << MkPage(11, <<2750, 2750, 2750>>) >>
\* 3 pages (meta.last_page = 3); the first holds 2 entries, 1.125 hours
DsPaged == << MkPage(31, <<1000, 125>>), MkPage(33, <<250>>), MkPage(34, <<500>>) >>

Datasets == {DsNone, Ds8136, Ds8403, DsPaged}
\* one page whose second record has no duration property
DsNoDuration == << MkPage(21, <<500, AbsentNumber>>) >>
Outcomes ==
    {Transport, TransportAs("Load failed"), Http(401), Http(403), Http(404)}
        \cup {Ok(d) : d \in Datasets}
\* what a call of the client alone may meet
ClientOutcomes ==
    Outcomes \cup {TransportAs(m) : m \in TransportMessages}
             \cup {HttpWith(500, "oops")}

TicketIdSet == {<<"A">>, <<"B">>}

\* what a request for this ticket meets; a ticket the service does not know is a 404
UpstreamFor(up, ticketId) ==
    IF ticketId \in DOMAIN up THEN up[ticketId] ELSE Http(404)

\* the ZepAttendanceResponse body of a 200 answer: the page asked for, the first
\* page when the request names none
Respond(out, req) ==
    LET p == IF req.page = 0 THEN 1 ELSE req.page IN
    [data |-> out.pages[p],
     meta |-> [current_page |-> p, last_page |-> Len(out.pages)]]

----------------------------------------------------------------------------
(* ZepApiService *)

DefaultProxyUrl == "https://default-proxy/api/zep"
\* the proxy URL of the file's second declaration of the class
SecondProxyUrl == "https://second-proxy/api/zep"

\* setCredentials(apiKey, baseUrl, useProxy = false, proxyUrl?)
SetCredentials(api, apiKey, baseUrl, useProxy, proxyUrl) ==
    [apiKey |-> apiKey,
     baseUrl |-> StripSlash(baseUrl),
     useProxy |-> (useProxy = "true"),
     proxyUrl |-> IF Truthy(proxyUrl) THEN StripSlash(proxyUrl) ELSE api.proxyUrl]

\* ZepApiService.clearCredentials
ClearApiCredentials(api) ==
    [api EXCEPT !.apiKey = "", !.baseUrl = "", !.useProxy = FALSE]

\* getApiUrl(endpoint)
GetApiUrl(api, endpoint) ==
    IF api.useProxy THEN <<api.proxyUrl, endpoint>>
    ELSE <<api.baseUrl, "/api/v1", endpoint>>

\* !this.apiKey || !this.baseUrl
AlwaysConfigured(api) == FALSE
NotConfigured(api) == ~Truthy(api.apiKey) \/ ~Truthy(api.baseUrl)

\* the one fetch of getTimeEntriesForTicket: URL, query and headers.
\* page = 0: the query has no page parameter (only ticket_id)
AttendancesRequestBare(api, ticketId) ==
    [url |-> GetApiUrl(api, "/attendances"),
     ticket_id |-> ticketId,
     page |-> 0,
     authorization |-> IF api.useProxy THEN "" ELSE api.apiKey,
     xZepBaseUrl |-> IF api.useProxy THEN api.baseUrl ELSE ""]
AttendancesRequest(api, ticketId) ==
    [url |-> GetApiUrl(api, "/attendances"),
     ticket_id |-> ticketId,
     page |-> 0,
     authorization |-> api.apiKey,
     xZepBaseUrl |-> IF api.useProxy THEN api.baseUrl ELSE ""]

\* transformZepResponse(data, ticketId)
TransformDropsLast(data, ticketId) ==
    [k \in 1..(Len(data.data) - 1) |->
        [id |-> data.data[k].id, ticketId |-> ticketId, duration |-> data.data[k].duration]]
TransformZepResponse(data, ticketId) ==
    [k \in 1..Len(data.data) |->
        [id |-> data.data[k].id, ticketId |-> ticketId, duration |-> data.data[k].duration]]

\* the catch block without its last statement: an error that is neither the
\* TypeError of Chromium nor one of the two classes is thrown on as it is
ClassifyWithoutWrap(out) ==
    CASE out.kind = "transport" ->
             IF out.text = FailedToFetch THEN ZepCorsError
             ELSE [type |-> "TypeError", statusCode |-> 0, body |-> ""]
      [] out.kind = "http" ->
             IF out.status \in {401, 403, 404} THEN ZepApiConnectionError(out.status)
             ELSE ZepApiErrorWithBody(out.status, out.text)
      [] OTHER -> NoError
\* the error getTimeEntriesForTicket raises for what the fetch met
ClassifyFetch(out) ==
    CASE out.kind = "transport" ->
             IF out.text = FailedToFetch THEN ZepCorsError
             ELSE ZepApiConnectionError(0)
      [] out.kind = "http" ->
             IF out.status \in {401, 403, 404} THEN ZepApiConnectionError(out.status)
             ELSE ZepApiErrorWithBody(out.status, out.text)
      [] OTHER -> NoError

\* getTimeEntriesForTicket(ticketId): the error raised (NoError when it returns),
\* the entries returned and the requests issued
GetTimeEntriesForTicket(api, up, ticketId) ==
    IF NotConfigured(api)
    THEN [ticket |-> ticketId, error |-> ZepApiConnectionError(0),
          entries |-> <<>>, requests |-> <<>>]
    ELSE LET req == AttendancesRequest(api, ticketId)
             out == UpstreamFor(up, ticketId)
         IN [ticket |-> ticketId,
             error |-> ClassifyFetch(out),
             entries |-> IF out.kind = "ok"
                         THEN TransformZepResponse(Respond(out, req), ticketId)
                         ELSE <<>>,
             requests |-> <<req>>]

\* getTimeEntriesForTickets(ticketIds): every ticket is fetched, a ticket whose
\* fetch throws is logged and left out. The calls made, in order.
RECURSIVE GetTimeEntriesForTickets(_, _, _)
GetTimeEntriesForTickets(api, up, ids) ==
    IF ids = <<>> THEN <<>>
    ELSE <<GetTimeEntriesForTicket(api, up, Trim(Head(ids)))>>
         \o GetTimeEntriesForTickets(api, up, Tail(ids))

\* the allEntries array of getTimeEntriesForTickets
RECURSIVE EntriesOf(_)
EntriesOf(calls) ==
    IF calls = <<>> THEN <<>>
    ELSE (IF Head(calls).error = NoError THEN Head(calls).entries ELSE <<>>)
         \o EntriesOf(Tail(calls))

RECURSIVE RequestsOf(_)
RequestsOf(calls) ==
    IF calls = <<>> THEN <<>> ELSE Head(calls).requests \o RequestsOf(Tail(calls))

\* ZepApiService.testConnection, given what its fetch of /attendances meets
TestConnection(api, out) ==
    IF NotConfigured(api)
    THEN [result |-> Failure("API credentials not configured", NoError), requests |-> <<>>]
    ELSE LET req == [url |-> GetApiUrl(api, "/attendances"),
                     ticket_id |-> <<>>,
                     page |-> 0,
                     authorization |-> api.apiKey,
                     xZepBaseUrl |-> IF api.useProxy THEN api.baseUrl ELSE ""]
         IN [result |->
                CASE out.kind = "transport" ->
                         IF out.text = FailedToFetch
                         THEN Failure("CORS Error", ZepCorsError)
                         ELSE Failure("Connection test failed", NoError)
                  [] out.kind = "http" -> Failure("API test failed", ZepApiConnectionError(out.status))
                  [] OTHER -> Success([kind |-> "user"]),
             requests |-> <<req>>]

----------------------------------------------------------------------------
(* Ticket metadata *)

MetaOutcomes == {"notfound", "found"}

\* what the fetch of this ticket's details meets; a ticket the service does not
\* know is a 404
MetaFor(meta, id) == IF id \in DOMAIN meta THEN meta[id] ELSE "notfound"

\* getTicketsDetails(ticketIds): one record per id, in order; an id whose details
\* cannot be fetched gets the fallback record with plannedHours = 0
RECURSIVE GetTicketsDetails(_, _)
GetTicketsDetails(meta, ids) ==
    IF ids = <<>> THEN <<>>
    ELSE <<[id |-> Head(ids),
            plannedHours |-> IF MetaFor(meta, Head(ids)) = "found" THEN 8000 ELSE 0,
            fallback |-> MetaFor(meta, Head(ids)) # "found"]>>
         \o GetTicketsDetails(meta, Tail(ids))

----------------------------------------------------------------------------
(* ZepIntegrationService: helpers *)

\* Math.round(total * 100) / 100 on thousandths of an hour (total >= 0)
Round2(total) == IF IsNumber(total) THEN ((total + 5) \div 10) * 10 ELSE NaN

RECURSIVE Durations(_)
Durations(entries) ==
    IF entries = <<>> THEN <<>> ELSE <<Head(entries).duration>> \o Durations(Tail(entries))

\* calculateTotalHours(timeEntries)
CalculateTotalHours(entries) == Round2(JsSum(Durations(entries)))

\* a Map in insertion order: a sequence of [key, value]
MapHas(map, key) == \E k \in 1..Len(map) : map[k].key = key
MapGet(map, key) == map[CHOOSE k \in 1..Len(map) : map[k].key = key].value
MapSet(map, key, value) ==
    IF MapHas(map, key)
    THEN [k \in 1..Len(map) |->
            IF map[k].key = key THEN [key |-> key, value |-> value] ELSE map[k]]
    ELSE Append(map, [key |-> key, value |-> value])

RECURSIVE MapValues(_)
MapValues(map) ==
    IF map = <<>> THEN <<>> ELSE <<Head(map).value>> \o MapValues(Tail(map))

\* the ticketDetails field of a summary that has none
NoDetails == [id |-> <<>>, plannedHours |-> 0, fallback |-> FALSE]

\* ticketDetails.forEach(ticket => ticketMap.set(ticket.id, {...}))
RECURSIVE InitSummariesDropsFallbacks(_, _)
InitSummariesDropsFallbacks(map, details) ==
    IF details = <<>> THEN map
    ELSE InitSummariesDropsFallbacks(
            IF Head(details).fallback THEN map
            ELSE MapSet(map, Head(details).id,
                        [ticketId |-> Head(details).id,
                         plannedHours |-> Head(details).plannedHours,
                         actualHours |-> 0, entryCount |-> 0, hasDetails |-> TRUE,
                         ticketDetails |-> Head(details)]),
            Tail(details))
RECURSIVE InitSummaries(_, _)
InitSummaries(map, details) ==
    IF details = <<>> THEN map
    ELSE InitSummaries(
            MapSet(map, Head(details).id,
                   [ticketId |-> Head(details).id,
                    plannedHours |-> Head(details).plannedHours,
                    actualHours |-> 0, entryCount |-> 0, hasDetails |-> TRUE,
                    ticketDetails |-> Head(details)]),
            Tail(details))

\* the aggregation with = in place of +=
RECURSIVE AddEntriesKeepsLast(_, _)
AddEntriesKeepsLast(map, entries) ==
    IF entries = <<>> THEN map
    ELSE LET e == Head(entries)
             existing == IF MapHas(map, e.ticketId) THEN MapGet(map, e.ticketId)
                         ELSE [ticketId |-> e.ticketId, plannedHours |-> 0,
                               actualHours |-> 0, entryCount |-> 0, hasDetails |-> FALSE,
                               ticketDetails |-> NoDetails]
         IN AddEntriesKeepsLast(
                MapSet(map, e.ticketId,
                       [existing EXCEPT !.actualHours = e.duration,
                                        !.entryCount = @ + 1]),
                Tail(entries))
\* timeEntries.forEach(entry => { existing = get || zero; += ; set })
RECURSIVE AddEntries(_, _)
AddEntries(map, entries) ==
    IF entries = <<>> THEN map
    ELSE LET e == Head(entries)
             existing == IF MapHas(map, e.ticketId) THEN MapGet(map, e.ticketId)
                         ELSE [ticketId |-> e.ticketId, plannedHours |-> 0,
                               actualHours |-> 0, entryCount |-> 0, hasDetails |-> FALSE,
                               ticketDetails |-> NoDetails]
         IN AddEntries(
                MapSet(map, e.ticketId,
                       [existing EXCEPT !.actualHours = JsPlus(@, e.duration),
                                        !.entryCount = @ + 1]),
                Tail(entries))

\* calculateTicketSummaries(timeEntries, ticketDetails)
SummariesOfEntriesOnly(entries, details) == MapValues(AddEntries(<<>>, entries))
CalculateTicketSummaries(entries, details) ==
    MapValues(AddEntries(InitSummaries(<<>>, details), entries))

RECURSIVE PlannedOf(_)
PlannedOf(summaries) ==
    IF summaries = <<>> THEN <<>>
    ELSE <<Head(summaries).plannedHours>> \o PlannedOf(Tail(summaries))

SummaryOfDistinctIds(totalEntries, totalHours, totalPlannedHours, ticketSummaries, ids) ==
    [kind |-> "summary",
     totalEntries |-> totalEntries,
     totalHours |-> totalHours,
     totalPlannedHours |-> totalPlannedHours,
     ticketSummaries |-> ticketSummaries,
     ticketIds |-> FirstOccurrences(ids)]
Summary(totalEntries, totalHours, totalPlannedHours, ticketSummaries, ids) ==
    [kind |-> "summary",
     totalEntries |-> totalEntries,
     totalHours |-> totalHours,
     totalPlannedHours |-> totalPlannedHours,
     ticketSummaries |-> ticketSummaries,
     ticketIds |-> ids]

\* the catch block without its ZepCorsError branch
ContinuesAfterCors(error) ==
    CASE error.type = "ZepApiConnectionError" -> "api"
      [] OTHER -> "skip"
\* the catch block of executeZepIntegration's loop: what the error leads to
SkipsApiErrors(error) ==
    CASE error.type = "ZepCorsError" -> "cors"
      [] OTHER -> "skip"
FetchDecision(error) ==
    CASE error.type = "ZepCorsError" -> "cors"
      [] error.type = "ZepApiConnectionError" -> "api"
      [] OTHER -> "skip"

\* the for loop's condition i < ticketIds.length, on the 1-based index
StopsBeforeLast(i, n) == i <= n - 1
LoopContinues(i, n) == i <= n

\* the run without the check for an empty result
NeverEmpty(entries) == FALSE
\* allTimeEntries.length === 0 after the loop
NoEntries(entries) == Len(entries) = 0

----------------------------------------------------------------------------
(* The CORS relay: app.all('/api/zep/*') of proxy-server/server.js *)

\* longest upstream response body the relay is run on
MaxBodyLen == 3

\* the characters of upstream bodies: JSON brackets, a JSON number, JSON
\* whitespace and a letter that no JSON text starts with. None needs escaping
\* inside a JSON string.
BodyAlphabet == {"[", "]", "0", " ", "x"}
Bodies == SeqsUpTo(BodyAlphabet, MaxBodyLen)

JsonWhitespace == {" ", "\t", "\n", "\r"}

\* the tokens of a text over BodyAlphabet: every character that is not whitespace
JsonTokens(text) == SelectSeq(text, LAMBDA c : c \notin JsonWhitespace)

\* the JSON grammar on these tokens: 0, [] and [value]; "00" is no JSON number
RECURSIVE IsJsonValue(_)
IsJsonValue(toks) ==
    \/ toks = <<"0">>
    \/ /\ Len(toks) >= 2
       /\ toks[1] = "["
       /\ toks[Len(toks)] = "]"
       /\ Len(toks) = 2 \/ IsJsonValue(SubSeq(toks, 2, Len(toks) - 1))

\* JSON.parse(text): the value, held as its tokens, or a SyntaxError
JsonParse(text) ==
    IF IsJsonValue(JsonTokens(text))
    THEN [ok |-> TRUE, value |-> [kind |-> "json", chars |-> JsonTokens(text)]]
    ELSE [ok |-> FALSE, value |-> [kind |-> "json", chars |-> <<>>]]

\* the value the handler passes to res.json when the body does not parse: the text
JsonString(text) == [kind |-> "string", chars |-> text]

\* JSON.stringify(value): no insignificant whitespace; a string in double quotes
JsonStringify(value) ==
    IF value.kind = "string" THEN <<"\"">> \o value.chars \o <<"\"">>
    ELSE value.chars

\* process.env.ZEP_BASE_URL and process.env.ZEP_API_KEY, set or not
RelayEnvs == [baseUrl : {Undefined, "https://zep"}, apiKey : {Undefined, "srv-key"}]

\* requests to /api/zep/*: zepEndpoint, the ticket_id of req.query (<<>>: no
\* query), and the two headers the clients send
RelayRequests ==
    [method : {"GET", "POST"},
     endpoint : {"/attendances"},
     query : {<<>>, <<"A">>},
     authorization : {"", "key-1"},
     xZepBaseUrl : {"", "https://other-zep"}]

NoRelayRequest ==
    [method |-> "", endpoint |-> "", query |-> <<>>, authorization |-> "",
     xZepBaseUrl |-> ""]

\* what the upstream fetch meets: an answer, or the fetch rejects
RelayAnswers ==
    [kind : {"answer"}, status : {200, 404, 500},
     contentType : {Undefined, "text/plain"}, body : Bodies]
\* kind is what the catch block tells errors apart by: the name AbortError, the
\* code ECONNREFUSED, and neither of them for any other error. UpstreamTimeout is
\* the error node-fetch rejects with when the timeout option (line 165) expires:
\* a FetchError of type 'request-timeout', whose name is not AbortError and
\* which has no code
UpstreamTimeout == "FetchError"
RelayRejections ==
    [kind : {"AbortError", "ECONNREFUSED", "Error", UpstreamTimeout}, status : {0},
     contentType : {Undefined}, body : {<<>>}]
RelayOutcomes == RelayAnswers \cup RelayRejections

NoRelayOutcome == [kind |-> "none", status |-> 0, contentType |-> Undefined, body |-> <<>>]

\* lines 114, 136: the base URL the request is forwarded to
RelayTarget(env, req) == env.baseUrl

\* lines 152-157: the headers of the upstream request
RelayForwardsClientAuth(env, req) ==
    [authorization |-> IF req.authorization # "" THEN req.authorization ELSE env.apiKey,
     userAgent |-> "ZEP-Proxy-Server/1.0"]
RelayHeaders(env, req) ==
    [authorization |-> env.apiKey, userAgent |-> "ZEP-Proxy-Server/1.0"]

\* lines 136-171: the upstream request; POST and PUT carry JSON.stringify(req.body)
RelayUpstreamRequest(env, req) ==
    [made |-> TRUE,
     url |-> <<RelayTarget(env, req), "/api/v1", req.endpoint>>,
     query |-> req.query,
     method |-> req.method,
     headers |-> RelayHeaders(env, req),
     hasBody |-> req.method \in {"POST", "PUT"}]

NoRelayFetch ==
    [made |-> FALSE, url |-> <<>>, query |-> <<>>, method |-> "",
     headers |-> [authorization |-> "", userAgent |-> ""], hasBody |-> FALSE]

\* res.status(status).json(value): the body is JSON.stringify(value); Content-Type
\* is application/json unless the handler has set one
ResJson(status, contentType, value) ==
    [sent |-> TRUE, status |-> status,
     contentType |-> IF Truthy(contentType) THEN contentType ELSE "application/json",
     body |-> JsonStringify(value)]

\* the relay's own error bodies, {error: ...}
RelayError(message) == [kind |-> "json", chars |-> <<message>>]

NoRelayResponse == [sent |-> FALSE, status |-> 0, contentType |-> Undefined, body |-> <<>>]

\* lines 121-133: the configuration the handler needs before it forwards
RelayConfigError(env) ==
    CASE ~Truthy(env.baseUrl) -> "ZEP_BASE_URL environment variable not set"
      [] ~Truthy(env.apiKey) -> "ZEP_API_KEY environment variable not set"
      [] OTHER -> ""

\* lines 173-256: the response for what the upstream fetch met
RelayResponse(out) ==
    CASE out.kind = "answer" ->
            LET parsed == JsonParse(out.body)
                jsonResponse == IF parsed.ok THEN parsed.value ELSE JsonString(out.body)
            IN ResJson(out.status, out.contentType, jsonResponse)
      [] out.kind = "AbortError" -> ResJson(408, Undefined, RelayError("Request timeout"))
      [] out.kind = "ECONNREFUSED" ->
            ResJson(503, Undefined, RelayError("Cannot connect to ZEP API"))
      [] OTHER -> ResJson(500, Undefined, RelayError("Proxy server error"))

\* the relay is not part of the run
RelayOff ==
    /\ relayEnv = [baseUrl |-> Undefined, apiKey |-> Undefined]
    /\ relayPc = "off"
    /\ relayReq = NoRelayRequest
    /\ relayFetch = NoRelayFetch
    /\ relayUp = NoRelayOutcome
    /\ relayRes = NoRelayResponse

----------------------------------------------------------------------------
(* Initial state *)

FieldValues ==
    {AbsentField, ThrowingField,
     TextField(<<",", " ">>),
     TextField(<<"A">>),
     TextField(<<"A", ",", " ", "B">>),
     TextField(<<"A", ",", "A">>)}

ApiKeys == {"", "key-1"}
BaseUrls == {"", "https://zep/"}

NoCredentials ==
    [apiKey |-> Undefined, baseUrl |-> Undefined,
     useProxy |-> Undefined, proxyUrl |-> Undefined]

Init ==
    /\ zepField \in FieldValues
    /\ upstream \in [TicketIdSet -> Outcomes]
    /\ stored = NoItem
    \* the field initialisers of ZepApiService.ts:13-16; the file's second copy of
    \* the class (lines 293-296) starts with useProxy = true and another proxy URL,
    \* which no request shows: a client without API key issues none, and
    \* setCredentials and clearCredentials both assign useProxy
    /\ zepApi = [apiKey |-> "", baseUrl |-> "", useProxy |-> FALSE,
                 proxyUrl |-> DefaultProxyUrl]
    /\ op = "none"
    /\ pc = "idle"
    /\ ticketIds = <<>>
    /\ creds = NoCredentials
    /\ idx = 0
    /\ allTimeEntries = <<>>
    /\ fetchLog = <<>>
    /\ reqs = <<>>
    /\ writes = <<>>
    /\ statusLog = <<>>
    /\ result = NoResult
    /\ saved = NothingSaved
    /\ RelayOff

\* no operation is running
Quiet == pc = "idle"

----------------------------------------------------------------------------
(* executeZepIntegration, one action per await *)

\* lines 48-54: the two 'reading' statuses, then the field read is awaited
StartExecute ==
    /\ Quiet
    /\ op' = "execute"
    /\ pc' = "x_read"
    /\ statusLog' = <<"reading", "reading">>
    /\ ticketIds' = <<>>
    /\ creds' = NoCredentials
    /\ idx' = 0
    /\ allTimeEntries' = <<>>
    /\ fetchLog' = <<>>
    /\ reqs' = <<>>
    /\ writes' = <<>>
    /\ result' = NoResult
    /\ UNCHANGED <<relayVars, saved, zepField, upstream, stored, zepApi>>

\* lines 54-66: getZepTicketIds resolves; on success getCredentials is awaited
ExecRead ==
    /\ pc = "x_read"
    /\ LET ticketResult == GetZepTicketIds(zepField) IN
       IF ~ticketResult.success
       THEN /\ statusLog' = Append(statusLog, "error")
            /\ result' = ticketResult
            /\ pc' = "done"
            /\ UNCHANGED ticketIds
       ELSE /\ ticketIds' = ticketResult.data.ids
            /\ statusLog' = Append(statusLog, "reading")
            /\ pc' = "x_creds"
            /\ UNCHANGED result
    /\ UNCHANGED <<relayVars, saved, zepField, upstream, stored, zepApi, op, creds, idx,
                   allTimeEntries, fetchLog, reqs, writes>>

\* the check after the loop without its status update
AfterLoopWithoutError(entries, log) ==
    IF NoEntries(entries)
    THEN /\ statusLog' = log
         /\ result' = Failure("No time entries found for ZEP tickets", NoError)
         /\ pc' = "done"
    ELSE /\ statusLog' = Append(log, "updating")
         /\ pc' = "x_update"
         /\ UNCHANGED result
\* lines 133-142: after the loop
AfterLoop(entries, log) ==
    IF NoEntries(entries)
    THEN /\ statusLog' = Append(log, "error")
         /\ result' = Failure("No time entries found for ZEP tickets", NoError)
         /\ pc' = "done"
    ELSE /\ statusLog' = Append(log, "updating")
         /\ pc' = "x_update"
         /\ UNCHANGED result

\* lines 66-104: getCredentials resolves; with complete credentials the client is
\* configured and the first ticket's fetch is awaited
ExecCreds ==
    /\ pc = "x_creds"
    /\ LET c == GetCredentialsFromLocalStorage(stored) IN
       /\ creds' = c
       /\ IF CredentialsIncomplete(c)
          THEN /\ statusLog' = Append(statusLog, "error")
               /\ result' = Failure("ZEP API credentials are incomplete", NoError)
               /\ pc' = "done"
               /\ UNCHANGED <<zepApi, idx>>
          ELSE /\ zepApi' = SetCredentials(zepApi, c.apiKey, c.baseUrl, c.useProxy, c.proxyUrl)
               /\ idx' = 1
               /\ IF LoopContinues(1, Len(ticketIds))
                  THEN /\ statusLog' = statusLog \o <<"fetching", "fetching">>
                       /\ pc' = "x_fetch"
                       /\ UNCHANGED result
                  ELSE AfterLoop(allTimeEntries, Append(statusLog, "fetching"))
    /\ UNCHANGED <<relayVars, saved, zepField, upstream, stored, op, ticketIds,
                   allTimeEntries, fetchLog, reqs, writes>>

\* lines 94-131: the fetch of ticketIds[i] settles
ExecFetch ==
    /\ pc = "x_fetch"
    /\ LET call == GetTimeEntriesForTicket(zepApi, upstream, ticketIds[idx])
           entries == IF call.error = NoError
                      THEN allTimeEntries \o call.entries ELSE allTimeEntries
           decision == IF call.error = NoError THEN "ok" ELSE FetchDecision(call.error)
       IN
       /\ fetchLog' = Append(fetchLog, call)
       /\ reqs' = reqs \o call.requests
       /\ allTimeEntries' = entries
       /\ CASE decision = "cors" ->
                 /\ statusLog' = Append(statusLog, "error")
                 /\ result' = Failure("CORS policy prevents direct browser connection to ZEP API",
                                      call.error)
                 /\ pc' = "done"
                 /\ UNCHANGED idx
            [] decision = "api" ->
                 /\ statusLog' = Append(statusLog, "error")
                 /\ result' = Failure("ZEP API Error", call.error)
                 /\ pc' = "done"
                 /\ UNCHANGED idx
            [] OTHER ->
                 /\ idx' = idx + 1
                 /\ IF LoopContinues(idx + 1, Len(ticketIds))
                    THEN /\ statusLog' = Append(statusLog, "fetching")
                         /\ pc' = "x_fetch"
                         /\ UNCHANGED result
                    ELSE AfterLoop(entries, statusLog)
    /\ UNCHANGED <<relayVars, saved, zepField, upstream, stored, zepApi, op, ticketIds, creds, writes>>

\* lines 144-170: updateDurationField settles
ExecUpdate ==
    /\ pc = "x_update"
    /\ \E resolves \in BOOLEAN :
         LET totalHours == CalculateTotalHours(allTimeEntries)
             updateResult == UpdateDurationField(resolves)
         IN
         /\ writes' = Append(writes, [field |-> "CUSTOM.IST", value |-> totalHours,
                                      resolved |-> resolves])
         /\ IF ~updateResult.success
            THEN /\ statusLog' = Append(statusLog, "error")
                 /\ result' = updateResult
            ELSE /\ statusLog' = Append(statusLog, "complete")
                 /\ result' = Success(Summary(Len(allTimeEntries), totalHours, 0, <<>>,
                                              ticketIds))
    /\ pc' = "done"
    /\ UNCHANGED <<relayVars, saved, zepField, upstream, stored, zepApi, op, ticketIds, creds, idx,
                   allTimeEntries, fetchLog, reqs>>

----------------------------------------------------------------------------
(* The operations without a status callback, each as one step *)

\* what the fetch of testConnection may meet
TestOutcomes == {Transport, Http(401), Ok(DsNone)}

\* the run-local state an operation leaves behind
Ran(name, ids, c, calls, requests, res) ==
    /\ op' = name
    /\ pc' = "done"
    /\ ticketIds' = ids
    /\ creds' = c
    /\ idx' = 0
    /\ allTimeEntries' = EntriesOf(calls)
    /\ fetchLog' = calls
    /\ reqs' = requests
    /\ writes' = <<>>
    /\ statusLog' = <<>>
    /\ result' = res

\* previewTimeEntries
PreviewTimeEntries ==
    /\ Quiet
    /\ LET ticketResult == GetZepTicketIds(zepField)
           c == GetCredentialsFromLocalStorage(stored)
       IN
       IF ~ticketResult.success
       THEN /\ Ran("preview", <<>>, NoCredentials, <<>>, <<>>, ticketResult)
            /\ UNCHANGED zepApi
       ELSE IF CredentialsIncomplete(c)
       THEN /\ Ran("preview", ticketResult.data.ids, c, <<>>, <<>>,
                   Failure("ZEP API credentials not configured", NoError))
            /\ UNCHANGED zepApi
       ELSE LET api == SetCredentials(zepApi, c.apiKey, c.baseUrl, Undefined, Undefined)
                calls == GetTimeEntriesForTickets(api, upstream, ticketResult.data.ids)
            IN /\ zepApi' = api
               /\ Ran("preview", ticketResult.data.ids, c, calls, RequestsOf(calls),
                      Success([kind |-> "entries", entries |-> EntriesOf(calls)]))
    /\ UNCHANGED <<relayVars, saved, zepField, upstream, stored>>

\* testZepConnection
TestZepConnection ==
    /\ Quiet
    /\ \E out \in TestOutcomes :
         LET c == GetCredentialsFromLocalStorage(stored) IN
         IF CredentialsIncomplete(c)
         THEN /\ Ran("testZep", <<>>, c, <<>>, <<>>,
                     Failure("ZEP API credentials not configured", NoError))
              /\ UNCHANGED zepApi
         ELSE LET api == SetCredentials(zepApi, c.apiKey, c.baseUrl, Undefined, Undefined)
                  test == TestConnection(api, out)
              IN /\ zepApi' = api
                 /\ Ran("testZep", <<>>, c, <<>>, test.requests,
                        IF test.result.success THEN Success([kind |-> "bool"])
                        ELSE Failure(test.result.error, test.result.details))
    /\ UNCHANGED <<relayVars, saved, zepField, upstream, stored>>

\* ZepIntegrationService.testConnection: the client is used as it is
TestConnectionAsIs ==
    /\ Quiet
    /\ \E out \in TestOutcomes :
         LET test == TestConnection(zepApi, out) IN
         Ran("testConnection", <<>>, NoCredentials, <<>>, test.requests, test.result)
    /\ UNCHANGED <<relayVars, saved, zepField, upstream, stored, zepApi>>

\* the ticket id lists getTimeEntriesForWorkItem is called with: every list of up
\* to MaxTickets known ids, and lists with an id that is not trimmed
WorkItemInputs ==
    SeqsUpTo(TicketIdSet, MaxTickets)
        \cup {<< <<" ", "A">> >>, << <<" ", "A">>, <<"A">> >>}

\* getTimeEntriesForWorkItem(workItemId, ticketIds, filter): the client is used as
\* it is; totalHours is the plain sum
GetTimeEntriesForWorkItem(ids) ==
    /\ Quiet
    /\ \E meta \in [TicketIdSet -> MetaOutcomes] :
         LET calls == GetTimeEntriesForTickets(zepApi, upstream, ids)
             entries == EntriesOf(calls)
             ticketDetails == GetTicketsDetails(meta, ids)
             ticketSummaries == CalculateTicketSummaries(entries, ticketDetails)
             totalHours == JsSum(Durations(entries))
             totalPlannedHours == SumSeq(PlannedOf(ticketSummaries))
         IN Ran("workItem", ids, NoCredentials, calls, RequestsOf(calls),
                Success(Summary(Len(entries), totalHours, totalPlannedHours,
                                ticketSummaries, ids)))
    /\ UNCHANGED <<relayVars, saved, zepField, upstream, stored, zepApi>>

\* CredentialService.saveCredentials(apiKey, baseUrl, useProxy, proxyUrl)
SaveCredentials(apiKey, baseUrl, useProxy, proxyUrl) ==
    /\ Quiet
    /\ stored' = SaveCredentialsToLocalStorage(apiKey, baseUrl, useProxy, proxyUrl)
    /\ saved' = [present |-> TRUE, apiKey |-> apiKey, baseUrl |-> baseUrl,
                 useProxy |-> useProxy, proxyUrl |-> proxyUrl]
    /\ Ran("save", <<>>, NoCredentials, <<>>, <<>>, Success([kind |-> "void"]))
    /\ UNCHANGED <<relayVars, zepField, upstream, zepApi>>

\* ZepIntegrationService.clearCredentials
ClearCredentials ==
    /\ Quiet
    /\ zepApi' = ClearApiCredentials(zepApi)
    /\ stored' = NoItem
    /\ saved' = NothingSaved
    /\ Ran("clear", <<>>, NoCredentials, <<>>, <<>>, Success([kind |-> "void"]))
    /\ UNCHANGED <<relayVars, zepField, upstream>>

\* the caller has taken the result; the service is ready for the next call
Return ==
    /\ pc = "done"
    /\ pc' = "idle"
    /\ op' = "none"
    /\ ticketIds' = <<>>
    /\ creds' = NoCredentials
    /\ idx' = 0
    /\ allTimeEntries' = <<>>
    /\ fetchLog' = <<>>
    /\ reqs' = <<>>
    /\ writes' = <<>>
    /\ statusLog' = <<>>
    /\ result' = NoResult
    /\ UNCHANGED <<relayVars, saved, zepField, upstream, stored, zepApi>>

----------------------------------------------------------------------------
(* Specification *)

Next ==
    \/ StartExecute
    \/ ExecRead
    \/ ExecCreds
    \/ ExecFetch
    \/ ExecUpdate
    \/ PreviewTimeEntries
    \/ TestZepConnection
    \/ TestConnectionAsIs
    \/ \E ids \in WorkItemInputs : GetTimeEntriesForWorkItem(ids)
    \/ \E apiKey \in ApiKeys, baseUrl \in BaseUrls, useProxy \in BOOLEAN,
          proxyUrl \in {"", "https://proxy/api/zep/"} :
            SaveCredentials(apiKey, baseUrl, useProxy, proxyUrl)
    \/ ClearCredentials
    \/ Return

Spec == Init /\ [][Next]_vars

----------------------------------------------------------------------------
(* The ticket-id parser on its own: every short field value, and the documented one *)

Alphabet == {"8", "3", ",", " ", "\t"}

DocumentedField ==
    <<"8", "1", "3", "6", ",", " ", "8", "4", "0", "3", " ", ",", ",", " ",
      "8", "5", "0", "1">>

ParseInputs ==
    {AbsentField, ThrowingField, TextField(DocumentedField)}
        \cup {TextField(chars) : chars \in SeqsUpTo(Alphabet, MaxFieldLen)}

InitParse ==
    /\ zepField \in ParseInputs
    /\ upstream = [t \in TicketIdSet |-> Http(404)]
    /\ stored = NoItem
    /\ zepApi = [apiKey |-> "", baseUrl |-> "", useProxy |-> FALSE,
                 proxyUrl |-> DefaultProxyUrl]
    /\ op = "none"
    /\ pc = "idle"
    /\ ticketIds = <<>>
    /\ creds = NoCredentials
    /\ idx = 0
    /\ allTimeEntries = <<>>
    /\ fetchLog = <<>>
    /\ reqs = <<>>
    /\ writes = <<>>
    /\ statusLog = <<>>
    /\ result = NoResult
    /\ saved = NothingSaved
    /\ RelayOff

\* WorkItemService.getZepTicketIds called on the field
ReadTicketIds ==
    /\ pc = "idle"
    /\ LET r == GetZepTicketIds(zepField) IN
       /\ result' = r
       /\ ticketIds' = IF r.success THEN r.data.ids ELSE <<>>
    /\ op' = "getZepTicketIds"
    /\ pc' = "done"
    /\ UNCHANGED <<relayVars, saved, zepField, upstream, stored, zepApi, creds, idx, allTimeEntries,
                   fetchLog, reqs, writes, statusLog>>

NextParse == ReadTicketIds

SpecParse == InitParse /\ [][NextParse]_vars

----------------------------------------------------------------------------
(* The time-service client on its own: the public methods of ZepApiService *)

\* the field initialisers of the two declarations of the class in ZepApiService.ts
ApiInitialisers ==
    {[apiKey |-> "", baseUrl |-> "", useProxy |-> FALSE, proxyUrl |-> DefaultProxyUrl],
     [apiKey |-> "", baseUrl |-> "", useProxy |-> TRUE, proxyUrl |-> SecondProxyUrl]}

InitClient ==
    /\ zepField = AbsentField
    /\ upstream \in [TicketIdSet -> ClientOutcomes]
    /\ stored = NoItem
    /\ zepApi \in ApiInitialisers
    /\ op = "none"
    /\ pc = "idle"
    /\ ticketIds = <<>>
    /\ creds = NoCredentials
    /\ idx = 0
    /\ allTimeEntries = <<>>
    /\ fetchLog = <<>>
    /\ reqs = <<>>
    /\ writes = <<>>
    /\ statusLog = <<>>
    /\ result = NoResult
    /\ saved = NothingSaved
    /\ RelayOff

\* setCredentials(apiKey, baseUrl, useProxy?, proxyUrl?)
ClientSetCredentials ==
    /\ Quiet
    /\ \E apiKey \in ApiKeys, baseUrl \in BaseUrls,
          useProxy \in {Undefined, "false", "true"},
          proxyUrl \in {Undefined, "https://proxy/api/zep/"} :
         zepApi' = SetCredentials(zepApi, apiKey, baseUrl, useProxy, proxyUrl)
    /\ Ran("setCredentials", <<>>, NoCredentials, <<>>, <<>>, Success([kind |-> "void"]))
    /\ UNCHANGED <<relayVars, saved, zepField, upstream, stored>>

\* getTimeEntriesForTicket(ticketId): returns the entries or throws
ClientGetTimeEntriesForTicket ==
    /\ Quiet
    /\ \E ticketId \in TicketIdSet :
         LET call == GetTimeEntriesForTicket(zepApi, upstream, ticketId) IN
         Ran("getTimeEntriesForTicket", <<ticketId>>, NoCredentials, <<call>>,
             call.requests,
             IF call.error = NoError
             THEN Success([kind |-> "entries", entries |-> call.entries])
             ELSE Failure("thrown", call.error))
    /\ UNCHANGED <<relayVars, saved, zepField, upstream, stored, zepApi>>

\* testConnection()
ClientTestConnection ==
    /\ Quiet
    /\ \E out \in TestOutcomes :
         LET test == TestConnection(zepApi, out) IN
         Ran("testConnection", <<>>, NoCredentials, <<>>, test.requests, test.result)
    /\ UNCHANGED <<relayVars, saved, zepField, upstream, stored, zepApi>>

\* clearCredentials()
ClientClearCredentials ==
    /\ Quiet
    /\ zepApi' = ClearApiCredentials(zepApi)
    /\ Ran("clearCredentials", <<>>, NoCredentials, <<>>, <<>>, Success([kind |-> "void"]))
    /\ UNCHANGED <<relayVars, saved, zepField, upstream, stored>>

NextClient ==
    \/ ClientSetCredentials
    \/ ClientGetTimeEntriesForTicket
    \/ ClientTestConnection
    \/ ClientClearCredentials
    \/ Return

SpecClient == InitClient /\ [][NextClient]_vars

----------------------------------------------------------------------------
(* Calls interleaved with a run: while executeZepIntegration awaits a fetch, the
   host may call the same ZepIntegrationService instance again *)

\* credentials left in localStorage by an earlier session
InitInterleaved ==
    /\ zepField \in FieldValues
    /\ upstream \in [TicketIdSet -> Outcomes]
    /\ stored = SaveCredentialsToLocalStorage("key-1", "https://zep/", FALSE, "")
    /\ zepApi = [apiKey |-> "", baseUrl |-> "", useProxy |-> FALSE,
                 proxyUrl |-> DefaultProxyUrl]
    /\ op = "none"
    /\ pc = "idle"
    /\ ticketIds = <<>>
    /\ creds = NoCredentials
    /\ idx = 0
    /\ allTimeEntries = <<>>
    /\ fetchLog = <<>>
    /\ reqs = <<>>
    /\ writes = <<>>
    /\ statusLog = <<>>
    /\ result = NoResult
    /\ saved = [present |-> TRUE, apiKey |-> "key-1", baseUrl |-> "https://zep/",
                useProxy |-> FALSE, proxyUrl |-> ""]
    /\ RelayOff

\* the run has had a fetch settle and awaits the next one
BetweenFetches == op = "execute" /\ pc = "x_fetch" /\ Len(fetchLog) >= 1

\* what a call made meanwhile leaves untouched: the run's locals, the form, the
\* time service
runVars == <<op, pc, ticketIds, creds, idx, allTimeEntries, fetchLog, reqs, writes,
             statusLog, result>>

\* clearCredentials() called meanwhile
MeanwhileClearCredentials ==
    /\ BetweenFetches
    /\ zepApi' = ClearApiCredentials(zepApi)
    /\ stored' = NoItem
    /\ saved' = NothingSaved
    /\ UNCHANGED <<relayVars, runVars, zepField, upstream>>

\* previewTimeEntries() called meanwhile and run to its end: with ticket ids and
\* complete credentials it configures the client
MeanwhilePreviewTimeEntries ==
    /\ BetweenFetches
    /\ LET c == GetCredentialsFromLocalStorage(stored) IN
       zepApi' = IF GetZepTicketIds(zepField).success /\ ~CredentialsIncomplete(c)
                 THEN SetCredentials(zepApi, c.apiKey, c.baseUrl, Undefined, Undefined)
                 ELSE zepApi
    /\ UNCHANGED <<relayVars, runVars, saved, zepField, upstream, stored>>

\* testZepConnection() called meanwhile and run to its end
MeanwhileTestZepConnection ==
    /\ BetweenFetches
    /\ LET c == GetCredentialsFromLocalStorage(stored) IN
       zepApi' = IF ~CredentialsIncomplete(c)
                 THEN SetCredentials(zepApi, c.apiKey, c.baseUrl, Undefined, Undefined)
                 ELSE zepApi
    /\ UNCHANGED <<relayVars, runVars, saved, zepField, upstream, stored>>

\* a second executeZepIntegration() called meanwhile and run to its end: it
\* configures the client from the store; its field write goes to the form, which
\* the first run does not read
MeanwhileExecuteZepIntegration ==
    /\ BetweenFetches
    /\ LET c == GetCredentialsFromLocalStorage(stored) IN
       zepApi' = IF GetZepTicketIds(zepField).success /\ ~CredentialsIncomplete(c)
                 THEN SetCredentials(zepApi, c.apiKey, c.baseUrl, c.useProxy, c.proxyUrl)
                 ELSE zepApi
    /\ UNCHANGED <<relayVars, runVars, saved, zepField, upstream, stored>>

NextInterleaved ==
    \/ StartExecute
    \/ ExecRead
    \/ ExecCreds
    \/ ExecFetch
    \/ ExecUpdate
    \/ Return
    \/ MeanwhileClearCredentials
    \/ MeanwhilePreviewTimeEntries
    \/ MeanwhileTestZepConnection
    \/ MeanwhileExecuteZepIntegration

SpecInterleaved == InitInterleaved /\ [][NextInterleaved]_vars

----------------------------------------------------------------------------
(* Runs over upstream records that lack the duration property *)

\* ZepAttendanceItem declares duration as a number; the JSON the service sends
\* is not checked against the declaration
RecordOutcomes == {Ok(DsNone), Ok(Ds8403), Ok(DsNoDuration)}

InitRecords ==
    /\ zepField \in {TextField(<<"A">>), TextField(<<"A", ",", " ", "B">>)}
    /\ upstream \in [TicketIdSet -> RecordOutcomes]
    /\ stored = SaveCredentialsToLocalStorage("key-1", "https://zep/", FALSE, "")
    /\ zepApi = [apiKey |-> "", baseUrl |-> "", useProxy |-> FALSE,
                 proxyUrl |-> DefaultProxyUrl]
    /\ op = "none"
    /\ pc = "idle"
    /\ ticketIds = <<>>
    /\ creds = NoCredentials
    /\ idx = 0
    /\ allTimeEntries = <<>>
    /\ fetchLog = <<>>
    /\ reqs = <<>>
    /\ writes = <<>>
    /\ statusLog = <<>>
    /\ result = NoResult
    /\ saved = [present |-> TRUE, apiKey |-> "key-1", baseUrl |-> "https://zep/",
                useProxy |-> FALSE, proxyUrl |-> ""]
    /\ RelayOff

NextRecords ==
    \/ StartExecute
    \/ ExecRead
    \/ ExecCreds
    \/ ExecFetch
    \/ ExecUpdate
    \/ PreviewTimeEntries
    \/ \E ids \in WorkItemInputs : GetTimeEntriesForWorkItem(ids)
    \/ Return

SpecRecords == InitRecords /\ [][NextRecords]_vars

----------------------------------------------------------------------------
(* The relay on its own: every configuration, request and upstream outcome *)

serviceVars == <<zepField, upstream, stored, zepApi, op, pc, ticketIds, creds, idx,
                 allTimeEntries, fetchLog, reqs, writes, statusLog, result, saved>>

\* the extension's services before any call
ServiceAtRest ==
    /\ zepField = AbsentField
    /\ upstream = [t \in TicketIdSet |-> Http(404)]
    /\ stored = NoItem
    /\ zepApi = [apiKey |-> "", baseUrl |-> "", useProxy |-> FALSE,
                 proxyUrl |-> DefaultProxyUrl]
    /\ op = "none"
    /\ pc = "idle"
    /\ ticketIds = <<>>
    /\ creds = NoCredentials
    /\ idx = 0
    /\ allTimeEntries = <<>>
    /\ fetchLog = <<>>
    /\ reqs = <<>>
    /\ writes = <<>>
    /\ statusLog = <<>>
    /\ result = NoResult
    /\ saved = NothingSaved

InitRelay ==
    /\ ServiceAtRest
    /\ relayEnv \in RelayEnvs
    /\ relayPc = "listening"
    /\ relayReq = NoRelayRequest
    /\ relayFetch = NoRelayFetch
    /\ relayUp = NoRelayOutcome
    /\ relayRes = NoRelayResponse

\* lines 102-173: a request arrives; the handler answers 500 when the
\* configuration is incomplete and otherwise issues the upstream request
RelayHandle ==
    /\ relayPc = "listening"
    /\ \E req \in RelayRequests :
         /\ relayReq' = req
         /\ IF RelayConfigError(relayEnv) # ""
            THEN /\ relayRes' = ResJson(500, Undefined,
                                        RelayError(RelayConfigError(relayEnv)))
                 /\ relayPc' = "responded"
                 /\ UNCHANGED relayFetch
            ELSE /\ relayFetch' = RelayUpstreamRequest(relayEnv, req)
                 /\ relayPc' = "fetching"
                 /\ UNCHANGED relayRes
    /\ UNCHANGED <<serviceVars, relayEnv, relayUp>>

\* lines 173-256: the upstream fetch settles and the response is sent
RelaySettle ==
    /\ relayPc = "fetching"
    /\ \E out \in RelayOutcomes :
         /\ relayUp' = out
         /\ relayRes' = RelayResponse(out)
    /\ relayPc' = "responded"
    /\ UNCHANGED <<serviceVars, relayEnv, relayReq, relayFetch>>

\* the handler has returned; the relay waits for the next request
RelayListen ==
    /\ relayPc = "responded"
    /\ relayPc' = "listening"
    /\ relayReq' = NoRelayRequest
    /\ relayFetch' = NoRelayFetch
    /\ relayUp' = NoRelayOutcome
    /\ relayRes' = NoRelayResponse
    /\ UNCHANGED <<serviceVars, relayEnv>>

NextRelay ==
    \/ RelayHandle
    \/ RelaySettle
    \/ RelayListen

SpecRelay == InitRelay /\ [][NextRelay]_vars

----------------------------------------------------------------------------
(* Properties *)

Done(name) == op = name /\ pc = "done"

\* a connectivity/CORS error or an authentication/permission error
Fatal(error) ==
    \/ error.type = "ZepCorsError"
    \/ error.type = "ZepApiConnectionError" /\ error.statusCode \in {401, 403}

NotFound(error) == error.type = "ZepApiConnectionError" /\ error.statusCode = 404

NoDataFailure(r) ==
    ~r.success /\ r.error = "No time entries found for ZEP tickets"

\* every ticket of the list was fetched, each fetch returned, none returned entries
AllFetchedEmpty ==
    /\ Len(fetchLog) = Len(ticketIds)
    /\ \A k \in 1..Len(fetchLog) :
         fetchLog[k].error.type = "none" /\ Len(fetchLog[k].entries) = 0

\* C1: in executeZepIntegration, once the fetch of a ticket has failed with a
\* connectivity/CORS error or with HTTP 401/403, the run is over and its result is
\* a failure that carries that error and no TimeEntrySummary, whatever the other
\* tickets returned.
C1_FatalFetchFails ==
    op = "execute" =>
        \A k \in 1..Len(fetchLog) :
            Fatal(fetchLog[k].error) =>
                /\ pc = "done"
                /\ ~result.success
                /\ result.details = fetchLog[k].error
                /\ result.data.kind = "none"

\* a run in which an earlier ticket returned entries and a later one met a
\* connectivity failure
C1_Witness ==
    /\ Done("execute")
    /\ Len(fetchLog) = 2
    /\ fetchLog[1].error.type = "none" /\ Len(fetchLog[1].entries) > 0
    /\ fetchLog[2].error.type = "ZepCorsError"

\* C2: in executeZepIntegration a ticket whose fetch ends in HTTP 404 is skipped:
\* the run does not end with that error, every ticket of the list is fetched, and
\* when the other tickets returned 2 entries and the field write went through the
\* run succeeds with totalEntries = 2.
C2_NotFoundSkipped ==
    (Done("execute") /\ \E k \in 1..Len(fetchLog) : NotFound(fetchLog[k].error)) =>
        /\ Len(fetchLog) = Len(ticketIds)
        /\ ~NotFound(result.details)
        /\ (Len(allTimeEntries) = 2 /\ \A w \in 1..Len(writes) : writes[w].resolved)
               => (result.success /\ result.data.totalEntries = 2)

\* C3: getTimeEntriesForWorkItem and previewTimeEntries fail when the fetch of any
\* ticket met a connectivity or authentication failure.
C3_FailFast ==
    ((Done("preview") \/ Done("workItem"))
        /\ \E k \in 1..Len(fetchLog) : Fatal(fetchLog[k].error))
    => ~result.success

\* C4: executeZepIntegration returns the 'no data' failure only when the run is
\* over, every ticket id of the list has been fetched, in order, no fetch met a
\* connectivity error and no entry was collected; the failure carries no error
\* object, unlike the connectivity failure.
C4_NoDataAfterAll ==
    (op = "execute" /\ NoDataFailure(result)) =>
        /\ pc = "done"
        /\ Len(fetchLog) = Len(ticketIds)
        /\ \A k \in 1..Len(fetchLog) :
             /\ fetchLog[k].ticket = ticketIds[k]
             /\ fetchLog[k].error.type # "ZepCorsError"
        /\ Len(allTimeEntries) = 0
        /\ result.details.type = "none"

\* a 'no data' failure of a run over two tickets
C4_Witness ==
    /\ Done("execute")
    /\ NoDataFailure(result)
    /\ Len(ticketIds) = 2
    /\ Len(fetchLog) = 2

\* C5: at both aggregation entry points an empty ticket id list, or a list whose
\* fetches all return zero entries, gives a failure, never a successful
\* TimeEntrySummary with totalEntries = 0.
C5_EmptyIsNoData ==
    ((Done("execute") /\ Len(ticketIds) > 0) \/ Done("workItem")) /\ AllFetchedEmpty
        => ~result.success

\* the number with 2 decimals nearest to a sum of durations, halves rounded up
NearestHundredth(total) ==
    CHOOSE r \in 0..(total + 10) : r % 10 = 0 /\ r - 5 <= total /\ total < r + 5

RECURSIVE SumOfDurations(_, _)
SumOfDurations(entries, k) ==
    IF k = 0 THEN 0 ELSE entries[k].duration + SumOfDurations(entries, k - 1)

\* C6: in every successful TimeEntrySummary of executeZepIntegration and of
\* getTimeEntriesForWorkItem, totalHours is the sum of the collected entries'
\* durations rounded to 2 decimal places.
C6_TotalHoursRounded ==
    ((Done("execute") \/ Done("workItem")) /\ result.success) =>
        result.data.totalHours =
            NearestHundredth(SumOfDurations(allTimeEntries, Len(allTimeEntries)))

\* the items of all pages of what a ticket's request meets, in page order
AllItems(ticketId) == Flatten(UpstreamFor(upstream, ticketId).pages)

\* C7 as stated: a fetch that returns has issued one request per page of the
\* upstream (3 for last_page = 3) and returns the items of all pages in page order.
C7_WalksAllPages ==
    \A k \in 1..Len(fetchLog) :
        fetchLog[k].error.type = "none" =>
            /\ Len(fetchLog[k].requests) = Len(UpstreamFor(upstream, fetchLog[k].ticket).pages)
            /\ Len(fetchLog[k].entries) = Len(AllItems(fetchLog[k].ticket))
            /\ \A j \in 1..Len(fetchLog[k].entries) :
                 fetchLog[k].entries[j].id = AllItems(fetchLog[k].ticket)[j].id

\* C7 (amended): a fetch that returns has issued exactly one request, for its
\* ticket and without a page parameter, and returns the items of the first page
\* only, in order, each with the ticket id attached; the items of later pages are
\* not requested.
C7_FirstPageOnly ==
    \A k \in 1..Len(fetchLog) :
        fetchLog[k].error.type = "none" =>
            LET first == UpstreamFor(upstream, fetchLog[k].ticket).pages[1] IN
            /\ Len(fetchLog[k].requests) = 1
            /\ fetchLog[k].requests[1].page = 0
            /\ fetchLog[k].requests[1].ticket_id = fetchLog[k].ticket
            /\ Len(fetchLog[k].entries) = Len(first)
            /\ \A j \in 1..Len(first) :
                 /\ fetchLog[k].entries[j].id = first[j].id
                 /\ fetchLog[k].entries[j].duration = first[j].duration
                 /\ fetchLog[k].entries[j].ticketId = fetchLog[k].ticket

\* a fetch of executeZepIntegration that returned from a 3-page upstream
C7_Witness ==
    /\ op = "execute"
    /\ \E k \in 1..Len(fetchLog) :
         /\ fetchLog[k].error.type = "none"
         /\ Len(UpstreamFor(upstream, fetchLog[k].ticket).pages) = 3
         /\ Len(fetchLog[k].entries) = 2

\* the API key or the base URL is missing
Missing(c) == c.apiKey \in {"", Undefined} \/ c.baseUrl \in {"", Undefined}

\* C8: executeZepIntegration, previewTimeEntries and testZepConnection return a
\* failure without any HTTP request when the credentials they read lack the API
\* key or the base URL; on a client without API key or base URL, every
\* getTimeEntriesForTicket call raises without a request and testConnection fails
\* without a request.
C8_ConfigErrorNoRequest ==
    /\ ((Done("execute") \/ Done("preview") \/ Done("testZep")) /\ Missing(creds))
          => (~result.success /\ reqs = <<>> /\ fetchLog = <<>>)
    /\ ((Done("workItem") \/ Done("testConnection")) /\ Missing(zepApi))
          => /\ reqs = <<>>
             /\ Done("testConnection") => ~result.success
             /\ \A k \in 1..Len(fetchLog) :
                  /\ fetchLog[k].error.type = "ZepApiConnectionError"
                  /\ fetchLog[k].requests = <<>>

\* executeZepIntegration stopped at credentials that hold a base URL and no API
\* key, after reading two ticket ids
C8_Witness ==
    /\ Done("execute")
    /\ Len(ticketIds) = 2
    /\ creds.apiKey = Undefined
    /\ creds.baseUrl = "https://zep/"
    /\ ~result.success

SegmentStarts(chars) == {0} \cup {i \in 1..Len(chars) : chars[i] = ","}
SegmentEnd(chars, b) ==
    LET later == {i \in (b + 1)..Len(chars) : chars[i] = ","} IN
    IF later = {} THEN Len(chars) + 1
    ELSE CHOOSE i \in later : \A j \in later : i <= j
\* the positions of the segment's characters that are not whitespace
Inked(chars, b) ==
    {i \in (b + 1)..(SegmentEnd(chars, b) - 1) : chars[i] \notin {" ", "\t"}}
\* the segment without the whitespace around it
Core(chars, b) ==
    LET ink == Inked(chars, b)
        lo == CHOOSE i \in ink : \A j \in ink : i <= j
        hi == CHOOSE i \in ink : \A j \in ink : i >= j
    IN [k \in 1..(hi - lo + 1) |-> chars[lo + k - 1]]
\* the non-blank segments in their order in the value
ExpectedIds(chars) ==
    LET kept == {b \in SegmentStarts(chars) : Inked(chars, b) # {}} IN
    [k \in 1..Cardinality(kept) |->
        Core(chars, CHOOSE b \in kept : Cardinality({x \in kept : x < b}) = k - 1)]

\* C9: getZepTicketIds returns the comma-separated segments of the field value in
\* their order, each without the whitespace around it, empty segments dropped
\* ("8136, 8403 ,, 8501" gives 8136, 8403, 8501); it returns a failure when the
\* field is absent, empty or holds only separators and whitespace.
C9_TicketIdsParsed ==
    Done("getZepTicketIds") =>
        /\ IF zepField.kind # "text" \/ ExpectedIds(zepField.text) = <<>>
           THEN ~result.success /\ result.data.kind = "none"
           ELSE /\ result.success
                /\ result.data.ids = ExpectedIds(zepField.text)
        /\ zepField = TextField(DocumentedField) =>
             /\ result.success
             /\ result.data.ids = << <<"8", "1", "3", "6">>, <<"8", "4", "0", "3">>,
                                     <<"8", "5", "0", "1">> >>

\* the documented field value has been parsed
C9_Witness ==
    /\ Done("getZepTicketIds")
    /\ zepField = TextField(DocumentedField)
    /\ Len(ticketIds) = 3

----------------------------------------------------------------------------
(* Stored credentials and the proxy setting *)

\* a value read back equals the value saved; an absent value reads back as the
\* empty string or false
ReadsBack(got, savedValue) ==
    IF Truthy(got) THEN got = savedValue ELSE savedValue = ""

\* C15: after a successful saveCredentials(apiKey, baseUrl, useProxy, proxyUrl),
\* getCredentials returns the same four values
C15_CredentialsRoundTrip ==
    (Done("save") /\ result.success) =>
        LET c == GetCredentialsFromLocalStorage(stored) IN
        /\ ReadsBack(c.apiKey, saved.apiKey)
        /\ ReadsBack(c.baseUrl, saved.baseUrl)
        /\ (c.useProxy = "true") = saved.useProxy
        /\ ReadsBack(c.proxyUrl, saved.proxyUrl)

\* C16: with credentials saved with useProxy = true and a proxy URL, every
\* request of an executeZepIntegration run goes to the proxy URL; with proxy use
\* disabled every request goes to {baseUrl}/api/v1
C16_ProxySettingRoutesRequests ==
    op = "execute" =>
        \A k \in 1..Len(reqs) :
            IF saved.useProxy /\ Truthy(saved.proxyUrl)
            THEN reqs[k].url = <<StripSlash(saved.proxyUrl), "/attendances">>
            ELSE reqs[k].url = <<StripSlash(saved.baseUrl), "/api/v1", "/attendances">>

----------------------------------------------------------------------------
(* The summary of getTimeEntriesForWorkItem and executeZepIntegration *)

\* the ticketSummaries of the summary just returned
Summaries == result.data.ticketSummaries

\* the summaries of the ticket with this id
SummariesOf(id) == {k \in 1..Len(Summaries) : Summaries[k].ticketId = id}

EntriesWithTicket(id) == {k \in 1..Len(allTimeEntries) : allTimeEntries[k].ticketId = id}

\* C18: the summaries start with one summary per id of the input list, in the
\* order in which the ids first occur in it; a ticket without entries has
\* actualHours = 0 and entryCount = 0
C18_SummaryPerInputId ==
    (Done("workItem") /\ result.success) =>
        LET ids == FirstOccurrences(ticketIds) IN
        /\ Len(Summaries) >= Len(ids)
        /\ \A k \in 1..Len(ids) : Summaries[k].ticketId = ids[k]
        /\ \A k \in 1..Len(Summaries) :
              /\ Summaries[k].entryCount = Cardinality(EntriesWithTicket(Summaries[k].ticketId))
              /\ EntriesWithTicket(Summaries[k].ticketId) = {} =>
                    Summaries[k].actualHours = 0

C18_Witness ==
    /\ Done("workItem")
    /\ ticketIds = << <<"A">>, <<"B">> >>
    /\ Len(Summaries) = 2
    /\ Summaries[1].ticketId = <<"A">>
    /\ Summaries[1].entryCount = 0
    /\ Summaries[1].actualHours = 0
    /\ Summaries[2].ticketId = <<"B">>
    /\ Summaries[2].entryCount = 3

\* C19: the ticketIds of a returned summary is the input list itself: the list
\* passed to getTimeEntriesForWorkItem, the ids parsed from the field for
\* executeZepIntegration; duplicates stay
C19_TicketIdsAreInput ==
    /\ (Done("workItem") /\ result.success) => result.data.ticketIds = ticketIds
    /\ (Done("execute") /\ result.success) =>
          result.data.ticketIds = ExpectedIds(zepField.text)

C19_Witness ==
    /\ Done("execute")
    /\ result.success
    /\ result.data.ticketIds = << <<"A">>, <<"A">> >>

----------------------------------------------------------------------------
(* Interleaved calls *)

\* the client as the run configured it from the credentials it loaded
RunApi == SetCredentials(zepApi, creds.apiKey, creds.baseUrl, creds.useProxy, creds.proxyUrl)

\* C20: whatever is called between the fetches of an executeZepIntegration run,
\* every fetch of the run is made with the credentials and mode the run loaded
\* at its start and ends as it would in a run on its own
C20_RunUnaffected ==
    op = "execute" =>
        \A k \in 1..Len(fetchLog) :
            fetchLog[k] = GetTimeEntriesForTicket(RunApi, upstream, ticketIds[k])

----------------------------------------------------------------------------
(* The client's two modes *)

\* the requests of a client method that has just run on the configuration zepApi
ClientRequests ==
    IF pc = "done" /\ op \in {"getTimeEntriesForTicket", "testConnection"}
    THEN {reqs[k] : k \in 1..Len(reqs)} ELSE {}

\* C11 (as claimed): a direct request carries the user's API key in Authorization,
\* a request through the relay carries no Authorization
C11_TokenInOneModeOnly ==
    \A r \in ClientRequests :
        IF zepApi.useProxy THEN r.authorization = ""
        ELSE r.authorization = zepApi.apiKey

\* C11 (amended): every request carries the user's API key in Authorization, in
\* both modes; a request through the relay goes to the proxy URL and carries
\* X-ZEP-Base-URL as well, a direct request goes to the base URL and carries none
C11_TokenInBothModes ==
    \A r \in ClientRequests :
        /\ Truthy(zepApi.apiKey)
        /\ r.authorization = zepApi.apiKey
        /\ IF zepApi.useProxy
           THEN r.url[1] = zepApi.proxyUrl /\ r.xZepBaseUrl = zepApi.baseUrl
           ELSE r.url[1] = zepApi.baseUrl /\ r.xZepBaseUrl = ""

C11_Witness ==
    /\ Done("getTimeEntriesForTicket")
    /\ zepApi.useProxy
    /\ Len(reqs) = 1
    /\ reqs[1].authorization = "key-1"
    /\ reqs[1].url[1] = "https://proxy/api/zep"

----------------------------------------------------------------------------
(* The relay's contract *)

RelayForwarded == relayPc \in {"fetching", "responded"} /\ relayFetch.made

\* C12: a request that carries X-ZEP-Base-URL is forwarded to that base URL, also
\* when the server has no ZEP_BASE_URL (the API key being set); a request
\* without the header is forwarded to the server's ZEP_BASE_URL
C12_BaseUrlByHeaderOrConfig ==
    (relayPc \in {"fetching", "responded"} /\ Truthy(relayEnv.apiKey)) =>
        IF relayReq.xZepBaseUrl # ""
        THEN relayFetch.made /\ relayFetch.url[1] = relayReq.xZepBaseUrl
        ELSE Truthy(relayEnv.baseUrl) =>
                relayFetch.made /\ relayFetch.url[1] = relayEnv.baseUrl

\* C13: when the upstream answers a forwarded request, the relay's response has
\* the upstream's status and the upstream's body, character for character
C13_StatusAndBodyUnchanged ==
    (relayPc = "responded" /\ relayUp.kind = "answer") =>
        /\ relayRes.status = relayUp.status
        /\ relayRes.body = relayUp.body

\* C14: every upstream request carries the server's ZEP_API_KEY as its bearer
\* token, and never the Authorization value the client sent
C14_ServerKeyOnly ==
    RelayForwarded =>
        /\ relayFetch.headers.authorization = relayEnv.apiKey
        /\ Truthy(relayEnv.apiKey)
        /\ relayReq.authorization # "" =>
              relayFetch.headers.authorization # relayReq.authorization

C14_Witness ==
    /\ RelayForwarded
    /\ relayReq.authorization = "key-1"
    /\ relayFetch.headers.authorization = "srv-key"

\* C21: in executeZepIntegration each step issues at most one request; when the
\* request for a ticket is issued the run is awaiting exactly that fetch, every
\* request issued before has completed, none of the completed fetches failed,
\* and the request is for the ticket at the next position of the list
C21_SequentialFailFast ==
    [][(op = "execute" /\ pc \notin {"idle", "done"} /\ reqs' # reqs) =>
          /\ pc = "x_fetch"
          /\ Len(fetchLog) = Len(reqs)
          /\ \A k \in 1..Len(fetchLog) : fetchLog[k].error = NoError
          /\ Len(reqs') = Len(reqs) + 1
          /\ \A k \in 1..Len(reqs) : reqs'[k] = reqs[k]
          /\ reqs'[Len(reqs')].ticket_id = ticketIds[Len(reqs')]
          /\ Len(fetchLog') = Len(reqs')
      ]_vars

\* a run over two tickets that ended at the first ticket's failed fetch, with
\* one request issued
C21_Witness ==
    /\ Done("execute")
    /\ Len(ticketIds) = 2
    /\ Len(reqs) = 1
    /\ Len(fetchLog) = 1
    /\ Fatal(fetchLog[1].error)

\* C22: while executeZepIntegration runs, nothing is written to the work item
\* before every ticket of the list has been fetched, and only CUSTOM.IST is ever
\* written; a successful run has written it exactly once, the write went through,
\* and the value written is the totalHours of the returned summary
C22_DurationWrittenOnce ==
    op = "execute" =>
        /\ Len(writes) <= 1
        /\ \A w \in 1..Len(writes) :
             /\ writes[w].field = "CUSTOM.IST"
             /\ pc = "done"
             /\ Len(fetchLog) = Len(ticketIds)
             /\ \A k \in 1..Len(fetchLog) : fetchLog[k].error = NoError
        /\ (pc = "done" /\ result.success) =>
             /\ Len(writes) = 1
             /\ writes[1].resolved
             /\ result.data.kind = "summary"
             /\ writes[1].value = result.data.totalHours

\* a successful run over two tickets that wrote a total above zero
C22_Witness ==
    /\ Done("execute")
    /\ result.success
    /\ Len(ticketIds) = 2
    /\ Len(writes) = 1
    /\ writes[1].value > 0
    /\ writes[1].value = result.data.totalHours

\* the outcome the completed call of getTimeEntriesForTicket met, when it issued
\* its request
Met(kind) ==
    /\ Done("getTimeEntriesForTicket")
    /\ Len(reqs) = 1
    /\ UpstreamFor(upstream, fetchLog[1].ticket).kind = kind

\* C23: getTimeEntriesForTicket throws, for a non-2xx answer, an error with the
\* answer's status code (and, for a status other than 401, 403, 404, the answer's
\* body), and for a request that met no HTTP answer the ZepCorsError, which
\* carries no status code
C23_FailuresClassified ==
    LET out == UpstreamFor(upstream, fetchLog[1].ticket) IN
    /\ Met("http") =>
         /\ ~result.success
         /\ result.details.type = "ZepApiConnectionError"
         /\ result.details.statusCode = out.status
         /\ out.status \notin {401, 403, 404} => result.details.body = out.text
    /\ Met("transport") =>
         /\ ~result.success
         /\ result.details = ZepCorsError

\* the durations of the entries whose upstream record had one
NumericDurations(entries) == SelectSeq(Durations(entries), IsNumber)

\* C24: every entry the client produced has a number >= 0 as its duration, and
\* the totalHours of a successful run of executeZepIntegration is the rounded sum
\* of the durations of the records that have one (a record without duration
\* counts as 0 hours)
C24_AbsentDurationIsZero ==
    /\ \A k \in 1..Len(fetchLog) : \A j \in 1..Len(fetchLog[k].entries) :
         IsNumber(fetchLog[k].entries[j].duration)
    /\ (Done("execute") /\ result.success) =>
         result.data.totalHours = Round2(SumSeq(NumericDurations(allTimeEntries)))

\* the sum of the durations of the first k collected entries of the ticket
RECURSIVE HoursOfTicket(_, _)
HoursOfTicket(id, k) ==
    IF k = 0 THEN 0
    ELSE HoursOfTicket(id, k - 1)
         + (IF allTimeEntries[k].ticketId = id THEN allTimeEntries[k].duration ELSE 0)

\* C25: in the summary getTimeEntriesForWorkItem returns, every ticket summary's
\* actualHours is the sum of the durations of the collected entries with its
\* ticketId and its entryCount is their number; the entryCount values add up to
\* the number of collected entries
C25_SummaryAggregatesEntries ==
    (Done("workItem") /\ result.success) =>
        /\ \A k \in 1..Len(Summaries) :
             /\ Summaries[k].actualHours
                    = HoursOfTicket(Summaries[k].ticketId, Len(allTimeEntries))
             /\ Summaries[k].entryCount
                    = Cardinality(EntriesWithTicket(Summaries[k].ticketId))
        /\ SumSeq([k \in 1..Len(Summaries) |-> Summaries[k].entryCount])
               = Len(allTimeEntries)

\* two tickets with 5 entries, 12.5 hours, and 3 entries, 8.25 hours
C25_Witness ==
    /\ Done("workItem")
    /\ result.success
    /\ Len(allTimeEntries) = 8
    /\ Len(Summaries) = 2
    /\ Summaries[1].entryCount = 5 /\ Summaries[1].actualHours = 12500
    /\ Summaries[2].entryCount = 3 /\ Summaries[2].actualHours = 8250

\* the place of a step in the order reading, fetching, updating, complete
StepRank(step) ==
    CASE step = "reading" -> 1
      [] step = "fetching" -> 2
      [] step = "updating" -> 3
      [] step = "complete" -> 4
      [] OTHER -> 5

TerminalStep(step) == step \in {"complete", "error"}

\* C26: the steps a run of executeZepIntegration has passed to the status
\* callback are in the order reading, fetching, updating, complete, with
\* updating and complete at most once and complete directly after updating; a
\* terminal step ('complete' or 'error') is the last step emitted; a run that is
\* over has emitted one, a run that is not has emitted none; and the terminal
\* step is 'complete' exactly when the returned result has success = true
C26_StatusOrder ==
    op = "execute" =>
        LET n == Len(statusLog) IN
        /\ \A j \in 1..n : \A k \in j..n :
             /\ (j < k /\ statusLog[k] # "error")
                    => StepRank(statusLog[j]) <= StepRank(statusLog[k])
             /\ (j < k /\ statusLog[j] \in {"updating", "complete"})
                    => statusLog[k] # statusLog[j]
             /\ TerminalStep(statusLog[j]) => j = n
             /\ (statusLog[j] = "complete") => (j > 1 /\ statusLog[j - 1] = "updating")
        /\ n >= 2 /\ statusLog[1] = "reading"
        /\ (pc = "done") <=> TerminalStep(statusLog[n])
        /\ (pc = "done") => ((statusLog[n] = "complete") <=> result.success)

\* a completed run over two tickets: every step of the order was emitted
C26_Witness ==
    /\ Done("execute")
    /\ result.success
    /\ Len(ticketIds) = 2
    /\ statusLog = <<"reading", "reading", "reading", "fetching", "fetching",
                     "fetching", "updating", "complete">>

\* what made the run of executeZepIntegration fail before the update: the read
\* of the ticket ids, incomplete credentials, a failed fetch, or no entry
\* collected from any ticket
FailedBeforeUpdate ==
    \/ ~GetZepTicketIds(zepField).success
    \/ CredentialsIncomplete(creds)
    \/ \E k \in 1..Len(fetchLog) : fetchLog[k].error # NoError
    \/ Len(allTimeEntries) = 0

\* C27: a run of executeZepIntegration that returned a failure caused by the
\* ticket-id read, missing credentials, a fetch error or no data has not called
\* setFieldValue; previewTimeEntries, testZepConnection and
\* getTimeEntriesForWorkItem return without having called it
C27_WorkItemUntouched ==
    /\ (Done("execute") /\ ~result.success /\ FailedBeforeUpdate) => writes = <<>>
    /\ (Done("preview") \/ Done("testZep") \/ Done("workItem")) => writes = <<>>

\* a run that fetched both tickets, collected nothing and wrote nothing
C27_Witness ==
    /\ Done("execute")
    /\ NoDataFailure(result)
    /\ Len(fetchLog) = 2
    /\ writes = <<>>

FirstPage(ticketId) == UpstreamFor(upstream, ticketId).pages[1]

\* the number and the summed durations of the records that the first k ids of
\* the list are answered with, every position of the list counted
RECURSIVE RecordsForPositions(_, _)
RecordsForPositions(ids, k) ==
    IF k = 0 THEN 0 ELSE RecordsForPositions(ids, k - 1) + Len(FirstPage(ids[k]))

RECURSIVE HoursForPositions(_, _)
HoursForPositions(ids, k) ==
    IF k = 0 THEN 0
    ELSE HoursForPositions(ids, k - 1)
         + SumSeq([j \in 1..Len(FirstPage(ids[k])) |-> FirstPage(ids[k])[j].duration])

\* C29: executeZepIntegration issues one request per position of the id list in
\* the field, repeated ids included; a successful run counts the entries of a
\* ticket once per occurrence of its id, in totalEntries and in the hours written
\* to the work item
C29_NoDeduplication ==
    (op = "execute" /\ zepField.kind = "text") =>
        LET ids == ExpectedIds(zepField.text) IN
        /\ Len(reqs) <= Len(ids)
        /\ \A k \in 1..Len(reqs) : reqs[k].ticket_id = ids[k]
        /\ (pc = "done" /\ result.success) =>
             /\ Len(reqs) = Len(ids)
             /\ result.data.totalEntries = RecordsForPositions(ids, Len(ids))
             /\ result.data.totalHours = Round2(HoursForPositions(ids, Len(ids)))
             /\ writes[1].value = Round2(HoursForPositions(ids, Len(ids)))

\* the field "A,A" with 5 entries, 12.5 hours, on ticket A: two requests,
\* 10 entries, 25 hours written
C29_Witness ==
    /\ Done("execute")
    /\ result.success
    /\ zepField = TextField(<<"A", ",", "A">>)
    /\ Len(reqs) = 2
    /\ reqs[1].ticket_id = <<"A">> /\ reqs[2].ticket_id = <<"A">>
    /\ result.data.totalEntries = 10
    /\ writes[1].value = 25000

\* the server-side base URL or the server-side API key is not set
RelayUnconfigured == ~Truthy(relayEnv.baseUrl) \/ ~Truthy(relayEnv.apiKey)

\* the status the response to a forwarded request is to have
ExpectedRelayStatus(out) ==
    CASE out.kind = "answer" -> out.status
      [] out.kind \in {UpstreamTimeout, "AbortError"} -> 408
      [] out.kind = "ECONNREFUSED" -> 503
      [] OTHER -> 500

\* C30: a request to a relay without base URL or API key is answered with 500
\* and no upstream request is made; a handled request has one response, sent
\* when the handler returns and not before, with the upstream's status, 408 when
\* the upstream timed out, 503 when it refused the connection, 500 for any
\* other error
C30_ConfiguredOrRefused ==
    /\ (relayPc # "listening" /\ RelayUnconfigured) =>
          /\ relayPc = "responded"
          /\ relayRes.status = 500
          /\ ~relayFetch.made
    /\ relayPc = "fetching" => (relayFetch.made /\ ~relayRes.sent)
    /\ relayPc = "responded" =>
          /\ relayRes.sent
          /\ relayFetch.made => relayRes.status = ExpectedRelayStatus(relayUp)

====
